---- MODULE Spec2Model ----
(***************************************************************************)
(* Model of the passbolt Ansible collection:                               *)
(*   plugins/lookup/passbolt.py            LookupModule (run and helpers)   *)
(*   plugins/lookup/passbolt_inventory.py  LookupModule (option resolution) *)
(*   plugins/filter/check_naming.py        all_secrets                      *)
(*                                                                         *)
(* Python values are encoded as strings: a str is itself, the objects None, *)
(* True and False are the tokens PyNone, PyTrue and PyFalse.  A dict is a   *)
(* function whose DOMAIN is its key set; the empty dict is <<>>.            *)
(***************************************************************************)
EXTENDS Integers, Sequences, FiniteSets, TLC

\* ------------------------------------------------------------------ bounds
MaxTerms == 2
MaxRes == 2
MaxEnv == 2
MaxList == 2
MaxNameLen == 2
MaxRegexLen == 2

\* ------------------------------------------------------- Python encodings
PyNone == "<None>"
PyTrue == "<True>"
PyFalse == "<False>"

EmptyDict == <<>>

\* bool(v) for the encoded scalars
Truthy(v) == v \notin {PyNone, PyFalse, ""}

\* dict.get(k, default)
Get(d, k, default) == IF k \in DOMAIN d THEN d[k] ELSE default

\* str(v)
Str(v) ==
    CASE v = PyTrue -> "True"
      [] v = PyFalse -> "False"
      [] v = PyNone -> "None"
      [] OTHER -> v

\* str.lower() on the strings the model uses
Lower(s) ==
    CASE s \in {"true", "True", "TRUE", "tRuE"} -> "true"
      [] s \in {"false", "False", "FALSE"} -> "false"
      [] s = "None" -> "none"
      [] s = "NO" -> "no"
      [] OTHER -> s

\* d with key k set to v (d[k] = v)
SetKey(d, k, v) == [x \in (DOMAIN d) \cup {k} |-> IF x = k THEN v ELSE d[x]]

\* d without key k (d.pop(k, None), the dict part)
DelKey(d, k) == [x \in (DOMAIN d) \ {k} |-> d[x]]

\* self._templar.template(value): renders a Jinja expression, leaves any
\* other value as it is
Template(v) == IF v = "{{ url }}" THEN "rendered-url" ELSE v

\* ------------------------------------------------- option resolution
\* The play's `environment` variable: absent (variables.get gives None) or a
\* list of dicts.
NoEnvironment == [present |-> FALSE, items |-> <<>>]

\* next((item.get(k) for item in items if item.get(k)), default)
RECURSIVE FirstTruthy(_, _, _)
FirstTruthy(items, k, default) ==
    IF items = <<>> THEN default
    ELSE IF Truthy(Get(Head(items), k, PyNone)) THEN Head(items)[k]
    ELSE FirstTruthy(Tail(items), k, default)

\* passbolt.py LookupModule._get_env_value
GetEnvValue(selected_variable, environment_variables, os_environ, default) ==
    IF ~environment_variables.present \/ environment_variables.items = <<>>
    THEN Get(os_environ, selected_variable, default)
    ELSE Template(FirstTruthy(environment_variables.items, selected_variable, default))

\* passbolt.py LookupModule._get_value
GetValue(selected_variable, vars, environment_variables, os_environ, default) ==
    LET variable == Get(vars, selected_variable, PyNone)
    IN  IF variable = PyNone
        THEN GetEnvValue(selected_variable, environment_variables, os_environ, default)
        ELSE variable

\* passbolt_inventory.py LookupModule._get_env_value (iterating a missing
\* `environment` raises TypeError; the caller models that)
InvGetEnvValue(selected_variable, environment_variables, os_environ, default) ==
    LET os_environ_variable == Get(os_environ, selected_variable, PyNone)
        dflt == IF os_environ_variable # PyNone THEN os_environ_variable ELSE default
    IN  Template(FirstTruthy(environment_variables.items, selected_variable, dflt))

\* passbolt_inventory.py LookupModule._get_value
InvGetValue(selected_variable, vars, environment_variables, os_environ, default) ==
    LET variable == Get(vars, selected_variable, PyNone)
    IN  IF variable = PyNone
        THEN InvGetEnvValue(selected_variable, environment_variables, os_environ, default)
        ELSE variable

\* The options of _get_config: config key -> variable name and default
\* (the int default 20 is encoded as the string "20")
ConfigOptions ==
    [ base_url |-> [var |-> "PASSBOLT_BASE_URL", default |-> ""],
      private_key |-> [var |-> "PASSBOLT_PRIVATE_KEY", default |-> ""],
      passphrase |-> [var |-> "PASSBOLT_PASSPHRASE", default |-> ""],
      gpg_binary |-> [var |-> "PASSBOLT_GPG_BINARY", default |-> "gpg"],
      gpg_library |-> [var |-> "PASSBOLT_GPG_LIBRARY", default |-> "PGPy"],
      fingerprint |-> [var |-> "PASSBOLT_FINGERPRINT", default |-> ""],
      verify |-> [var |-> "PASSBOLT_VERIFY", default |-> PyTrue],
      create_new_resource |-> [var |-> "PASSBOLT_CREATE_NEW_RESOURCE", default |-> PyFalse],
      new_resource_password_length |->
          [var |-> "PASSBOLT_NEW_RESOURCE_PASSWORD_LENGTH", default |-> "20"],
      new_resource_password_special_chars |->
          [var |-> "PASSBOLT_NEW_RESOURCE_PASSWORD_SPECIAL_CHARS", default |-> PyFalse] ]

\* passbolt.py LookupModule._get_config
GetConfig(vars, environment_variables, os_environ) ==
    [c \in DOMAIN ConfigOptions |->
        GetValue(ConfigOptions[c].var, vars, environment_variables, os_environ,
                 ConfigOptions[c].default)]

\* passbolt_inventory.py LookupModule._get_config
InvGetConfig(vars, environment_variables, os_environ) ==
    [c \in DOMAIN ConfigOptions |->
        InvGetValue(ConfigOptions[c].var, vars, environment_variables, os_environ,
                    ConfigOptions[c].default)]

\* ------------------------------------------------------ passbolt lookup
\* The fixed output schema of _format_result
OutputKeys ==
    {"name", "uri", "username", "password", "description", "deleted", "created",
     "modified", "modified_by", "resource_type_id", "folder_parent_id", "personal"}

\* _format_result with the key misspelt as passbolt_inventory.py line 84 does
FormatResultMisspelt(resource, resource_secrets) ==
    [ name |-> Get(resource, "name", ""),
      uri |-> Get(resource, "uri", ""),
      username |-> Get(resource, "username", ""),
      password |-> Get(resource_secrets, "password", ""),
      description |->
          IF "description" \in DOMAIN resource_secrets
             /\ Truthy(resource_secrets["description"])
          THEN resource_secrets["description"]
          ELSE Get(resource, "description", ""),
      deleted |-> Get(resource, "deleted", ""),
      created |-> Get(resource, "created", ""),
      modified |-> Get(resource, "modified", ""),
      modified_by |-> Get(resource, "modified_by", ""),
      resource_type_id |-> Get(resource, "resource_type_id", ""),
      forder_parent_id |-> Get(resource, "folder_parent_id", ""),
      personal |-> Get(resource, "personal", "") ]

\* passbolt.py LookupModule._format_result
FormatResult(resource, resource_secrets) ==
    [ name |-> Get(resource, "name", ""),
      uri |-> Get(resource, "uri", ""),
      username |-> Get(resource, "username", ""),
      password |-> Get(resource_secrets, "password", ""),
      description |->
          IF "description" \in DOMAIN resource_secrets
             /\ Truthy(resource_secrets["description"])
          THEN resource_secrets["description"]
          ELSE Get(resource, "description", ""),
      deleted |-> Get(resource, "deleted", ""),
      created |-> Get(resource, "created", ""),
      modified |-> Get(resource, "modified", ""),
      modified_by |-> Get(resource, "modified_by", ""),
      resource_type_id |-> Get(resource, "resource_type_id", ""),
      folder_parent_id |-> Get(resource, "folder_parent_id", ""),
      personal |-> Get(resource, "personal", "") ]

\* passbolt.py LookupModule._search: every kwarg equals the item's field;
\* item[k] raises KeyError for a key the item lacks
SearchRaises(item, kw) == \E k \in DOMAIN kw : k \notin DOMAIN item

Search(item, kw) ==
    LET res == Cardinality({k \in DOMAIN kw : kw[k] = item[k]})
        expected == Cardinality(DOMAIN kw)
    IN  expected = res

\* Outcome of a resolution: a resource dict, or a raised exception
Found(r) == [raised |-> FALSE, resource |-> r]
Raised == [raised |-> TRUE, resource |-> EmptyDict]

\* passbolt.py LookupModule.get_resource_per_term
RECURSIVE GetResourcePerTerm(_, _)
GetResourcePerTerm(resources, term) ==
    IF resources = <<>> THEN Found(EmptyDict)
    ELSE IF Get(Head(resources), "name", PyNone) = term THEN Found(Head(resources))
    ELSE GetResourcePerTerm(Tail(resources), term)

\* passbolt.py LookupModule.get_resource_per_kwargs
RECURSIVE GetResourcePerKwargs(_, _)
GetResourcePerKwargs(resources, kw) ==
    IF resources = <<>> THEN Found(EmptyDict)
    ELSE IF SearchRaises(Head(resources), kw) THEN Raised
    ELSE IF Search(Head(resources), kw) THEN Found(Head(resources))
    ELSE GetResourcePerKwargs(Tail(resources), kw)

\* passbolt.py LookupModule.get_resource_per_uuid, over the server's
\* resources (PassboltAPI.get_resource_per_uuid answers from the server)
RECURSIVE GetResourcePerUuid(_, _)
GetResourcePerUuid(resources, uuid) ==
    IF resources = <<>> THEN Found(EmptyDict)
    ELSE IF Head(resources)["id"] = uuid THEN Found(Head(resources))
    ELSE GetResourcePerUuid(Tail(resources), uuid)

\* run, lines 291-298: how a term is resolved
ResolveHow(kw) ==
    IF Get(kw, "per_uuid", PyNone) = "true" THEN "uuid"
    ELSE IF Truthy(Get(kw, "wantlist", PyNone)) THEN "term"
    ELSE IF Cardinality(DOMAIN kw) # 0 THEN "kwargs"
    ELSE "term"

Resolve(kw, term, listing, srv) ==
    CASE ResolveHow(kw) = "uuid" -> GetResourcePerUuid(srv, term)
      [] ResolveHow(kw) = "kwargs" -> GetResourcePerKwargs(listing, kw)
      [] OTHER -> GetResourcePerTerm(listing, term)

\* passbolt_init, line 255: the listing is fetched unless per_uuid is "true"
FetchesListing(kw) == Get(kw, "per_uuid", PyNone) # "true"

\* line 313 testing the option's truth value instead of comparing it to "true"
CreateEnabledTruthy(config) == Truthy(config["create_new_resource"])

\* run, line 313
CreateEnabled(config) == Lower(Str(config["create_new_resource"])) = "true"

\* run, lines 301-310: the decrypted secret parsed as JSON, or kept as the
\* password when it is not JSON
JsonSecret(data) == [json |-> TRUE, data |-> data]
PlainSecret(text) == [json |-> FALSE, data |-> text]

LoadSecret(secret) ==
    IF secret.json THEN secret.data ELSE [password |-> secret.data]

\* _create_new_password: a random string, one token here
GeneratedPassword == "generated"

\* Ids of the resources the server holds at the start, by position, and the
\* fresh ids it gives to created resources, by creation
IdOf == <<"a", "b", "c", "d">>
NewIdOf == <<"new-1", "new-2", "new-3", "new-4">>

\* r.status_code == 200
StatusOK == 200
StatusRejected == 400

\* _create_new_resource, lines 139-155: the request built from kwargs
NewResource(kw) ==
    [ name |-> Get(kw, "name", PyNone),
      username |-> Get(kw, "username", PyNone),
      uri |-> Get(kw, "uri", PyNone),
      resource_type_id |-> "password-and-description",
      folder_parent_id |-> Get(kw, "folder_parent_id", PyNone),
      password |-> Get(kw, "password", GeneratedPassword),
      description |-> Get(kw, "description", "Ansible Generated") ]

\* The body of the server's 200 answer: the stored resource, with its id
CreatedBody(new_resource, id) ==
    [ id |-> id,
      name |-> new_resource.name,
      username |-> new_resource.username,
      uri |-> new_resource.uri,
      resource_type_id |-> new_resource.resource_type_id,
      folder_parent_id |-> new_resource.folder_parent_id ]

\* _create_new_resource, lines 158-166: the record returned
CreateResult(new_resource, status, id) ==
    IF status = StatusOK
    THEN FormatResult(CreatedBody(new_resource, id),
                      [password |-> new_resource.password,
                       description |-> new_resource.description])
    ELSE FormatResult(EmptyDict, EmptyDict)

\* ----------------------------------------------------- check_naming filter
\* A name is a sequence of characters; a regex is a sequence of tokens: a
\* literal character, "." (any character) or "$" (end of the string).
NameChars == {"a", "b"}
RegexTokens == {"a", "b", ".", "$"}

\* re.fullmatch in place of re.match: the pattern must cover the whole name
RECURSIVE ReFullMatch(_, _)
ReFullMatch(regexfil, name) ==
    IF regexfil = <<>> THEN name = <<>>
    ELSE IF Head(regexfil) = "$" THEN name = <<>> /\ ReFullMatch(Tail(regexfil), name)
    ELSE IF name = <<>> THEN FALSE
    ELSE IF Head(regexfil) = "." \/ Head(regexfil) = Head(name)
         THEN ReFullMatch(Tail(regexfil), Tail(name))
    ELSE FALSE

\* re.match(regexfil, name): the pattern matched at the start of the name
RECURSIVE ReMatch(_, _)
ReMatch(regexfil, name) ==
    IF regexfil = <<>> THEN TRUE
    ELSE IF Head(regexfil) = "$" THEN name = <<>> /\ ReMatch(Tail(regexfil), name)
    ELSE IF name = <<>> THEN FALSE
    ELSE IF Head(regexfil) = "." \/ Head(regexfil) = Head(name)
         THEN ReMatch(Tail(regexfil), Tail(name))
    ELSE FALSE

\* check_naming.py all_secrets, list branch (lines 14-23)
RECURSIVE UncompliantSecrets(_, _)
UncompliantSecrets(secs, regexfil) ==
    IF secs = <<>> THEN <<>>
    ELSE LET sec == Head(secs)
             rest == UncompliantSecrets(Tail(secs), regexfil)
         IN  IF "name" \in DOMAIN sec /\ ~ReMatch(regexfil, sec["name"])
             THEN <<[name |-> sec["name"], user |-> sec["username"]]>> \o rest
             ELSE rest

\* check_naming.py all_secrets, single-record branch (lines 25-30)
IsCompliant == <<" is compliant">>
IsNotCompliant == <<" is not compliant">>

SingleSecret(sec, regexfil) ==
    IF ~ReMatch(regexfil, sec["name"])
    THEN [raised |-> TRUE, value |-> sec["name"] \o IsNotCompliant]
    ELSE [raised |-> FALSE, value |-> sec["name"] \o IsCompliant]

\* ------------------------------------------------------------------ state
VARIABLES
    terms,               \* run: the terms argument
    options,             \* run: the keyword arguments as passed by the caller
    kwargs,              \* run: the kwargs dict, mutated by run
    variables,           \* the task/play variables (without `environment`)
    environment,         \* variables.get("environment")
    os_environ,          \* os.environ
    dict_config,         \* self.dict_config
    server,              \* the Passbolt server's resources
    server_secrets,      \* the Passbolt server's secrets, decrypted, per resource
    passbolt_resources,  \* self.passbolt_resources
    description,         \* run: the popped description
    password,            \* run: the popped password
    idx,                 \* run: position of the loop over terms
    pc,                  \* run: "start", "loop", "done" or "raised"
    ret,                 \* run: the records to return
    resolved,            \* history: per processed term, how it was resolved
    createCalls,         \* history: the arguments of PassboltAPI.create_resource
    uuidCalls,           \* history: number of PassboltAPI.get_resource_per_uuid calls
    listCalls,           \* history: number of PassboltAPI.get_resources calls
    inv_config,          \* passbolt_inventory: self.dict_config
    cfg_pc,              \* option resolution: "start", "passbolt", "inventory", "raised"
    d,                   \* check_naming: the filtered value
    regexfil,            \* check_naming: the regex
    result,              \* check_naming: the value returned or raised
    flt_pc               \* check_naming: "start", "returned" or "raised"

inputVars == <<variables, environment, os_environ>>
runVars == <<terms, options, kwargs, server, server_secrets, passbolt_resources,
             description, password, idx, pc, ret, resolved, createCalls,
             uuidCalls, listCalls>>
lookupVars == <<dict_config, runVars>>
configVars == <<inv_config, cfg_pc>>
filterVars == <<d, regexfil, result, flt_pc>>
vars == <<inputVars, lookupVars, configVars, filterVars>>

\* ----------------------------------------------------------------- inputs
Absent == "<absent>"

\* the dict holding the keys of rec that are not Absent
DictOf(rec) == [k \in {x \in DOMAIN rec : rec[x] # Absent} |-> rec[k]]

RECURSIVE SeqsUpTo(_, _)
SeqsUpTo(S, n) ==
    IF n = 0 THEN {<<>>}
    ELSE LET shorter == SeqsUpTo(S, n - 1)
         IN  shorter \cup {Append(q, x) : q \in {r \in shorter : Len(r) = n - 1}, x \in S}

Names == {"a", "b"}

\* A resource as the server lists it: with every field, or with the
\* identifying fields only
Shapes == {"bare", "fullD", "fullX"}

FullResource(id, name, username, uri, descr) ==
    [ id |-> id, name |-> name, username |-> username, uri |-> uri,
      description |-> descr, deleted |-> PyFalse, created |-> "2024-01-01",
      modified |-> "2024-01-02", modified_by |-> "admin",
      resource_type_id |-> "password-and-description",
      folder_parent_id |-> PyNone, personal |-> PyFalse ]

MakeResource(id, name, shape) ==
    CASE shape = "bare" -> [id |-> id, name |-> name, username |-> "u"]
      [] shape = "fullD" -> FullResource(id, name, "u", "x", "D")
      [] OTHER -> FullResource(id, name, "v", "y", "X")

\* The secret stored with a resource: JSON with a description, JSON with an
\* empty description (the description is kept in the resource), or the bare
\* password
MakeSecret(shape) ==
    CASE shape = "bare" -> PlainSecret("raw-secret")
      [] shape = "fullD" -> JsonSecret([password |-> "pw", description |-> "secret-desc"])
      [] OTHER -> JsonSecret([password |-> "pw", description |-> ""])

\* The resources a server may hold: two under the name "a" that differ in
\* every other field, one under "b"
ResourcePool == {<<"a", "bare">>, <<"a", "fullX">>, <<"b", "fullD">>}

ServerContents == SeqsUpTo(ResourcePool, MaxRes)

OptionSets ==
    {DictOf(o) : o \in [per_uuid : {Absent, "true", PyTrue, PyFalse},
                        username : {Absent, "u"},
                        uri : {Absent, "x"},
                        description : {Absent, "D"},
                        password : {Absent, "p"},
                        wantlist : {Absent, PyTrue}]}

CreateOptionValues == {Absent, "TRUE", "NO"}

\* ----------------------------------------------------- passbolt lookup run
IdleConfig == /\ inv_config = EmptyDict
              /\ cfg_pc = "idle"

IdleFilter == /\ d = [isList |-> TRUE, value |-> <<>>]
              /\ regexfil = <<>>
              /\ result = <<>>
              /\ flt_pc = "idle"

IdleRun ==    /\ terms = <<>>
              /\ options = EmptyDict
              /\ kwargs = EmptyDict
              /\ server = <<>>
              /\ server_secrets = <<>>
              /\ passbolt_resources = <<>>
              /\ description = PyNone
              /\ password = PyNone
              /\ idx = 0
              /\ pc = "idle"
              /\ ret = <<>>
              /\ resolved = <<>>
              /\ createCalls = <<>>
              /\ uuidCalls = 0
              /\ listCalls = 0

Init ==
    /\ terms \in SeqsUpTo(Names, MaxTerms)
    /\ options \in OptionSets
    /\ kwargs = options
    /\ \E c \in CreateOptionValues :
           variables = DictOf([PASSBOLT_CREATE_NEW_RESOURCE |-> c])
    /\ environment = NoEnvironment
    /\ os_environ = EmptyDict
    /\ dict_config = EmptyDict
    /\ \E q \in ServerContents :
           /\ server = [i \in 1..Len(q) |-> MakeResource(IdOf[i], q[i][1], q[i][2])]
           /\ server_secrets = [i \in 1..Len(q) |-> MakeSecret(q[i][2])]
    /\ passbolt_resources = <<>>
    /\ description = PyNone
    /\ password = PyNone
    /\ idx = 0
    /\ pc = "start"
    /\ ret = <<>>
    /\ resolved = <<>>
    /\ createCalls = <<>>
    /\ uuidCalls = 0
    /\ listCalls = 0
    /\ IdleConfig
    /\ IdleFilter

\* run, lines 279-286: passbolt_init, then description and password are
\* removed from kwargs
RunStart ==
    /\ pc = "start"
    /\ dict_config' = GetConfig(variables, environment, os_environ)
    /\ IF FetchesListing(kwargs)
       THEN /\ passbolt_resources' = server
            /\ listCalls' = listCalls + 1
       ELSE UNCHANGED <<passbolt_resources, listCalls>>
    /\ description' = Get(kwargs, "description", PyNone)
    /\ password' = Get(kwargs, "password", PyNone)
    /\ kwargs' = DelKey(DelKey(kwargs, "description"), "password")
    /\ idx' = 1
    /\ pc' = IF terms = <<>> THEN "done" ELSE "loop"
    /\ UNCHANGED <<terms, options, server, server_secrets, ret, resolved,
                   createCalls, uuidCalls>>
    /\ UNCHANGED <<inputVars, configVars, filterVars>>

\* run, line 289: kwargs["name"] = uuid = term
TermKwargs == SetKey(kwargs, "name", terms[idx])

Resolution == Resolve(TermKwargs, terms[idx], passbolt_resources, server)

NextPc == IF idx + 1 > Len(terms) THEN "done" ELSE "loop"

CountUuid == uuidCalls' = IF ResolveHow(TermKwargs) = "uuid" THEN uuidCalls + 1 ELSE uuidCalls

Entry(outcome, resource, resource_secrets) ==
    [ term |-> terms[idx], how |-> ResolveHow(TermKwargs), outcome |-> outcome,
      matched |-> Resolution.resource,
      resource |-> resource, resource_secrets |-> resource_secrets ]

\* self.p.decrypt(self.p.get_resource_secret(id)): the server's secret
SecretOf(id) ==
    server_secrets[CHOOSE i \in 1..Len(server) : server[i]["id"] = id]

\* run, lines 299-311: the term's resource exists; its secret is fetched,
\* decrypted and parsed, and the record appended
TermFound ==
    /\ pc = "loop"
    /\ ~Resolution.raised
    /\ Truthy(Get(Resolution.resource, "id", PyNone))
    /\ LET resource_secrets == LoadSecret(SecretOf(Resolution.resource["id"]))
       IN  /\ ret' = Append(ret, FormatResult(Resolution.resource, resource_secrets))
           /\ resolved' = Append(resolved,
                  Entry("found", Resolution.resource, resource_secrets))
    /\ kwargs' = TermKwargs
    /\ CountUuid
    /\ idx' = idx + 1
    /\ pc' = NextPc
    /\ UNCHANGED <<terms, options, dict_config, server, server_secrets,
                   passbolt_resources,
                   description, password, createCalls, listCalls>>
    /\ UNCHANGED <<inputVars, configVars, filterVars>>

\* run, lines 315-318: description and password are put back for the creation
CreateKwargs ==
    LET withDescription == IF Truthy(description)
                           THEN SetKey(TermKwargs, "description", description)
                           ELSE TermKwargs
    IN  IF Truthy(password)
        THEN SetKey(withDescription, "password", password)
        ELSE withDescription

\* run, lines 312-319 and _create_new_resource: no resource for the term and
\* creation is enabled; the server accepts or rejects the new resource
TermCreate ==
    /\ pc = "loop"
    /\ ~Resolution.raised
    /\ ~Truthy(Get(Resolution.resource, "id", PyNone))
    /\ CreateEnabled(dict_config)
    /\ \E status \in {StatusOK, StatusRejected} :
          LET new_resource == NewResource(CreateKwargs)
              id == NewIdOf[Len(createCalls) + 1]
          IN  /\ createCalls' = Append(createCalls, [index |-> idx, request |-> new_resource])
              /\ server' = IF status = StatusOK
                           THEN Append(server, CreatedBody(new_resource, id))
                           ELSE server
              /\ server_secrets' =
                     IF status = StatusOK
                     THEN Append(server_secrets,
                                 JsonSecret([password |-> new_resource.password,
                                             description |-> new_resource.description]))
                     ELSE server_secrets
              /\ ret' = Append(ret, CreateResult(new_resource, status, id))
              /\ resolved' = Append(resolved,
                     IF status = StatusOK
                     THEN Entry("created", CreatedBody(new_resource, id),
                                [password |-> new_resource.password,
                                 description |-> new_resource.description])
                     ELSE Entry("rejected", EmptyDict, EmptyDict))
    /\ kwargs' = CreateKwargs
    /\ CountUuid
    /\ idx' = idx + 1
    /\ pc' = NextPc
    /\ UNCHANGED <<terms, options, dict_config, passbolt_resources,
                   description, password, listCalls>>
    /\ UNCHANGED <<inputVars, configVars, filterVars>>

\* run, lines 320-321: no resource for the term and creation is not enabled
TermNotFound ==
    /\ pc = "loop"
    /\ ~Resolution.raised
    /\ ~Truthy(Get(Resolution.resource, "id", PyNone))
    /\ ~CreateEnabled(dict_config)
    /\ kwargs' = TermKwargs
    /\ CountUuid
    /\ resolved' = Append(resolved, Entry("not found", EmptyDict, EmptyDict))
    /\ pc' = "raised"
    /\ UNCHANGED <<terms, options, dict_config, server, server_secrets,
                   passbolt_resources,
                   description, password, idx, ret, createCalls, listCalls>>
    /\ UNCHANGED <<inputVars, configVars, filterVars>>

\* run, line 296 through _search line 124: a kwarg names a key that a listed
\* resource does not have, item[k] raises KeyError
TermKeyError ==
    /\ pc = "loop"
    /\ Resolution.raised
    /\ kwargs' = TermKwargs
    /\ resolved' = Append(resolved, Entry("KeyError", EmptyDict, EmptyDict))
    /\ pc' = "raised"
    /\ UNCHANGED <<terms, options, dict_config, server, server_secrets,
                   passbolt_resources,
                   description, password, idx, ret, createCalls, uuidCalls, listCalls>>
    /\ UNCHANGED <<inputVars, configVars, filterVars>>

Next == RunStart \/ TermFound \/ TermCreate \/ TermNotFound \/ TermKeyError

Spec == Init /\ [][Next]_vars

\* ------------------------------------------------ option resolution alone
SettingSets(urls, flags) ==
    {DictOf([PASSBOLT_BASE_URL |-> u, PASSBOLT_CREATE_NEW_RESOURCE |-> f]) :
        u \in urls \cup {Absent}, f \in flags \cup {Absent}}

Environments ==
    {NoEnvironment} \cup
    {[present |-> TRUE, items |-> q] :
        q \in SeqsUpTo(SettingSets({"", "{{ url }}", "env-url"}, {"true"}), MaxEnv)}

InitConfig ==
    /\ variables \in SettingSets({"var-url"}, {"true"})
    /\ environment \in Environments
    /\ os_environ \in SettingSets({"os-url"}, {"TRUE"})
    /\ dict_config = EmptyDict
    /\ inv_config = EmptyDict
    /\ cfg_pc = "start"
    /\ IdleRun
    /\ IdleFilter

\* passbolt.py passbolt_init, line 252
PassboltGetConfig ==
    /\ cfg_pc = "start"
    /\ dict_config' = GetConfig(variables, environment, os_environ)
    /\ cfg_pc' = "passbolt"
    /\ UNCHANGED <<inv_config, inputVars, runVars, filterVars>>

\* Some option is not set in the variables, so _get_env_value is called
NeedsEnvironment ==
    \E c \in DOMAIN ConfigOptions : Get(variables, ConfigOptions[c].var, PyNone) = PyNone

\* passbolt_inventory.py passbolt_init, line 129
InventoryGetConfig ==
    /\ cfg_pc = "start"
    /\ environment.present \/ ~NeedsEnvironment
    /\ inv_config' = InvGetConfig(variables, environment, os_environ)
    /\ cfg_pc' = "inventory"
    /\ UNCHANGED <<dict_config, inputVars, runVars, filterVars>>

\* passbolt_inventory.py line 65: iterating the missing `environment`
\* raises TypeError
InventoryTypeError ==
    /\ cfg_pc = "start"
    /\ ~environment.present
    /\ NeedsEnvironment
    /\ cfg_pc' = "raised"
    /\ UNCHANGED <<dict_config, inv_config, inputVars, runVars, filterVars>>

NextConfig == PassboltGetConfig \/ InventoryGetConfig \/ InventoryTypeError

SpecConfig == InitConfig /\ [][NextConfig]_vars

\* ------------------------------------------------- check_naming filter run
FilterNames == SeqsUpTo(NameChars, MaxNameLen)

\* Records of the lookups' output: the filter reads name and username
SecretRecords == [name : FilterNames, username : {"u", PyNone}, password : {"pw"}]

InitFilter ==
    /\ \/ \E q \in SeqsUpTo(SecretRecords, MaxList) : d = [isList |-> TRUE, value |-> q]
       \/ \E r \in SecretRecords : d = [isList |-> FALSE, value |-> r]
    /\ regexfil \in SeqsUpTo(RegexTokens, MaxRegexLen)
    /\ result = <<>>
    /\ flt_pc = "start"
    /\ variables = EmptyDict
    /\ environment = NoEnvironment
    /\ os_environ = EmptyDict
    /\ dict_config = EmptyDict
    /\ IdleRun
    /\ IdleConfig

\* all_secrets on a list, lines 13-23
FilterList ==
    /\ flt_pc = "start"
    /\ d.isList
    /\ result' = UncompliantSecrets(d.value, regexfil)
    /\ flt_pc' = "returned"
    /\ UNCHANGED <<d, regexfil, inputVars, lookupVars, configVars>>

\* all_secrets on one record, lines 25-30: returns the message
FilterSingleReturn ==
    /\ flt_pc = "start"
    /\ ~d.isList
    /\ ~SingleSecret(d.value, regexfil).raised
    /\ result' = SingleSecret(d.value, regexfil).value
    /\ flt_pc' = "returned"
    /\ UNCHANGED <<d, regexfil, inputVars, lookupVars, configVars>>

\* all_secrets on one record, lines 25-28: raises Exception(message)
FilterSingleRaise ==
    /\ flt_pc = "start"
    /\ ~d.isList
    /\ SingleSecret(d.value, regexfil).raised
    /\ result' = SingleSecret(d.value, regexfil).value
    /\ flt_pc' = "raised"
    /\ UNCHANGED <<d, regexfil, inputVars, lookupVars, configVars>>

NextFilter == FilterList \/ FilterSingleReturn \/ FilterSingleRaise

SpecFilter == InitFilter /\ [][NextFilter]_vars

\* ================================================================ claims
\* C1: PassboltAPI.create_resource is invoked for a term (and the server's
\* resources change) only in a step whose term resolved to no resource with
\* an id while the create_new_resource option, lower-cased, is "true".
C1_CreateOnlyWhenMissingAndEnabled ==
    [][ (createCalls' # createCalls \/ server' # server)
        => /\ pc = "loop"
           /\ ~Resolution.raised
           /\ Get(Resolution.resource, "id", PyNone) \in {PyNone, ""}
           /\ Lower(Str(dict_config["create_new_resource"])) = "true"
           /\ Len(createCalls') = Len(createCalls) + 1
           /\ createCalls'[Len(createCalls')].request.name = terms[idx] ]_vars

\* C1 witness: one run found a resource for a term without creating and
\* created a resource for another term
C1_Witness ==
    /\ pc = "done"
    /\ listCalls = 1
    /\ \E i, j \in DOMAIN resolved :
          /\ resolved[i].outcome = "found"
          /\ resolved[j].outcome = "created"
    /\ Len(createCalls) = 1
    /\ Len(server) = Len(passbolt_resources) + 1

\* C2: every record run returns has exactly the twelve keys of the output
\* schema, and a field that the resource (or, for password and description,
\* the secret) lacks is the empty string.
C2_FixedSchema ==
    \A i \in DOMAIN ret :
        /\ DOMAIN ret[i] = {"name", "uri", "username", "password", "description",
                            "deleted", "created", "modified", "modified_by",
                            "resource_type_id", "folder_parent_id", "personal"}
        /\ \A k \in {"name", "uri", "username", "deleted", "created", "modified",
                     "modified_by", "resource_type_id", "folder_parent_id", "personal"} :
              k \notin DOMAIN resolved[i].resource => ret[i][k] = ""
        /\ "password" \notin DOMAIN resolved[i].resource_secrets => ret[i]["password"] = ""
        /\ ("description" \notin DOMAIN resolved[i].resource_secrets
            /\ "description" \notin DOMAIN resolved[i].resource)
           => ret[i]["description"] = ""

\* C2 witness: a run returned a record for a found resource that lacks
\* fields and a record for a creation the server rejected
C2_Witness ==
    /\ pc = "done"
    /\ \E i, j \in DOMAIN ret :
          /\ resolved[i].outcome = "found"
          /\ "uri" \notin DOMAIN resolved[i].resource
          /\ resolved[j].outcome = "rejected"

\* C3: without per_uuid and with a username and/or uri option, every existing
\* resource returned for a term has the term as its name and the given
\* username and uri, whatever the other options (wantlist included).
C3_FiltersApplied ==
    \A i \in DOMAIN resolved :
        ( /\ "per_uuid" \notin DOMAIN options
          /\ DOMAIN options \cap {"username", "uri"} # {}
          /\ resolved[i].outcome = "found" )
        => /\ Get(resolved[i].matched, "name", PyNone) = resolved[i].term
           /\ \A k \in DOMAIN options \cap {"username", "uri"} :
                 Get(resolved[i].matched, k, PyNone) = options[k]

\* C4: with the description option, an existing resource is returned for a
\* term only if its description equals the option.
C4_DescriptionFilters ==
    \A i \in DOMAIN resolved :
        ("description" \in DOMAIN options /\ resolved[i].outcome = "found")
        => Get(resolved[i].matched, "description", PyNone) = options["description"]

\* C5: with per_uuid true (the boolean or the string "true") every term is
\* resolved by the UUID lookup and the listing is not fetched; with per_uuid
\* absent or false every term is resolved by name matching and the UUID
\* lookup is never called.
C5_PerUuidSelectsLookup ==
    pc # "start" =>
        /\ Get(options, "per_uuid", Absent) \in {"true", PyTrue}
           => /\ listCalls = 0
              /\ \A i \in DOMAIN resolved : resolved[i].how = "uuid"
        /\ Get(options, "per_uuid", PyFalse) = PyFalse
           => /\ uuidCalls = 0
              /\ \A i \in DOMAIN resolved : resolved[i].how # "uuid"

\* The pattern matches at the start of the name: its tokens before the first
\* "$" match the name's first characters one by one, and a "$" requires the
\* name to end there and only "$" to follow
FirstDollar(re) ==
    IF \E i \in DOMAIN re : re[i] = "$"
    THEN CHOOSE i \in DOMAIN re : re[i] = "$" /\ \A j \in 1..(i - 1) : re[j] # "$"
    ELSE Len(re) + 1

MatchesAtStart(re, name) ==
    LET n == FirstDollar(re) - 1
    IN  /\ n <= Len(name)
        /\ \A i \in 1..n : re[i] \in {".", name[i]}
        /\ FirstDollar(re) <= Len(re)
           => /\ Len(name) = n
              /\ \A j \in FirstDollar(re)..Len(re) : re[j] = "$"

NonCompliant(sec) == ~MatchesAtStart(regexfil, sec.name)

\* C6: for a list, check_naming returns in input order one {name, user}
\* entry per record whose name does not match the regex at its start, none
\* for a matching record, and does not raise; for one record it returns
\* "<name> is compliant" on a match and raises "<name> is not compliant"
\* otherwise.
C6_CheckNaming ==
    /\ (flt_pc \in {"returned", "raised"} /\ d.isList)
       => /\ flt_pc = "returned"
          /\ LET uncompliant == SelectSeq(d.value, NonCompliant)
             IN  result = [i \in 1..Len(uncompliant) |->
                              [name |-> uncompliant[i].name,
                               user |-> uncompliant[i].username]]
    /\ (flt_pc \in {"returned", "raised"} /\ ~d.isList)
       => IF MatchesAtStart(regexfil, d.value.name)
          THEN flt_pc = "returned" /\ result = d.value.name \o <<" is compliant">>
          ELSE flt_pc = "raised" /\ result = d.value.name \o <<" is not compliant">>

\* C6 witness: a list with a compliant record followed by an uncompliant one
\* was filtered with a regex that matches a proper prefix of a name
C6_Witness ==
    /\ flt_pc = "returned"
    /\ d.isList
    /\ Len(d.value) = 2
    /\ Len(result) = 1
    /\ result[1].name = d.value[2].name
    /\ regexfil # <<>>
    /\ Len(regexfil) < Len(d.value[1].name)

\* The fallback chain: the variable if not None, else the first truthy play
\* environment entry (templated), else the OS environment, else the default
ChainValue(k, default) ==
    IF Get(variables, k, PyNone) # PyNone THEN variables[k]
    ELSE IF \E i \in DOMAIN environment.items : Truthy(Get(environment.items[i], k, PyNone))
    THEN LET first == CHOOSE i \in DOMAIN environment.items :
                          /\ Truthy(Get(environment.items[i], k, PyNone))
                          /\ \A j \in 1..(i - 1) :
                                ~Truthy(Get(environment.items[j], k, PyNone))
         IN  Template(environment.items[first][k])
    ELSE IF k \in DOMAIN os_environ THEN os_environ[k]
    ELSE default

\* C7: every option of the passbolt lookup's configuration is resolved by
\* the fallback chain, so an option set only in the OS environment is used
\* whether or not the play environment is empty.
C7_FallbackChain ==
    cfg_pc = "passbolt" =>
        \A c \in DOMAIN ConfigOptions :
            dict_config[c] = ChainValue(ConfigOptions[c].var, ConfigOptions[c].default)

====
